---- MODULE Spec2Model ----
(***************************************************************************)
(* CvFit: a model of the two variants of the CV analyser.                  *)
(*                                                                         *)
(*  - the heuristic variant (src/old_main_before_OPENAI.py): the keyword   *)
(*    table, keyword_score and the response assembly of /analyze;          *)
(*  - the hardened variant (src/main.py): the rate_limit dependency, the   *)
(*    upload size check, the retried LLM call, and the /extract, /analyze  *)
(*    and /analyze/batch handlers.                                         *)
(*                                                                         *)
(* Text is a sequence of one-character strings, so that lower() and the    *)
(* substring test `k in text` are computed as Python computes them.        *)
(***************************************************************************)
EXTENDS Integers, Sequences, FiniteSets, TLC

VARIABLES
    \* ---- heuristic variant: one /analyze request
    hpc,              \* position in analyze: "start", "derived", "scored", "done"
    job_description,  \* the form field
    cv_text,          \* the text extracted from the upload
    wanted, nice,     \* the keyword lists derived from the job description
    fit, hits, missing,               \* what keyword_score returned
    highlights, gaps, suggestions,    \* the lists of the AnalysisResponse
    \* ---- hardened variant: the rate_limit dependency
    LAST_CALL_TS,     \* the module global _LAST_CALL_TS, in tenths of a second
    clock,            \* time.time(), in tenths of a second
    rpc,              \* per thread, its position in rate_limit
    now,              \* per thread, the local `now`
    seen,             \* per thread, the _LAST_CALL_TS its comparison read
    callLog,          \* the finished rate_limit calls, in order of return
    \* ---- hardened variant: one /extract, /analyze or /analyze/batch request
    apc,              \* position in the handler
    endpoint,         \* "extract", "analyze" or "batch"
    files,            \* the uploads of the request
    idx,              \* the upload being processed
    fpos,             \* stream position of that upload
    posBefore,        \* its stream position when _ensure_size was entered
    contentRead,      \* whether upload.file.read() ran on it
    chatLog,          \* the provider calls of the current _chat_json call
    data,             \* what _chat_json returned
    exc,              \* the exception in flight
    causes,           \* per processed upload, how its processing ended
    results,          \* the items of the batch response
    status            \* the HTTP status of the response, 0 while there is none

hvars == <<hpc, job_description, cv_text, wanted, nice, fit, hits, missing,
           highlights, gaps, suggestions>>
rvars == <<LAST_CALL_TS, clock, rpc, now, seen, callLog>>
avars == <<apc, endpoint, files, idx, fpos, posBefore, contentRead, chatLog,
           data, exc, causes, results, status>>

vars == <<hvars, rvars, avars>>

(***************************************************************************)
(* Bounds of the model.                                                    *)
(***************************************************************************)
MaxJdPieces == 2
MaxCvPieces == 2
MaxListLen == 11
MaxClock == 11
MaxCalls == 3
MaxFiles == 2

(***************************************************************************)
(* Text helpers.                                                           *)
(***************************************************************************)
UpperChars == <<"A","B","C","D","E","F","G","H","I","J","K","L","M","N","O","P","Q","R","S","T","U","V","W","X","Y","Z">>
LowerChars == <<"a","b","c","d","e","f","g","h","i","j","k","l","m","n","o","p","q","r","s","t","u","v","w","x","y","z">>

\* the lowercase of each capital
LowerOf == [c \in {UpperChars[i] : i \in 1..26} |->
              LowerChars[CHOOSE i \in 1..26 : UpperChars[i] = c]]

\* str.lower(), one character
LowerChar(c) == IF c \in DOMAIN LowerOf THEN LowerOf[c] ELSE c

\* str.lower()
Lower(s) == [i \in 1..Len(s) |-> LowerChar(s[i])]

\* Python's `t in s` on strings
Contains(s, t) ==
    \E i \in 0..(Len(s) - Len(t)) : \A j \in 1..Len(t) : s[i + j] = t[j]

\* s[:n]
Take(s, n) == SubSeq(s, 1, IF Len(s) < n THEN Len(s) ELSE n)

\* `x in list`
InList(x, list) == \E i \in 1..Len(list) : list[i] = x

RECURSIVE Flatten(_)
Flatten(parts) ==
    IF parts = <<>> THEN <<>> ELSE Head(parts) \o Flatten(Tail(parts))

SeqsUpTo(S, n) == UNION {[1..k -> S] : k \in 0..n}

Rep(x, n) == [i \in 1..n |-> x]

(***************************************************************************)
(* The vocabulary of the heuristic variant.                                *)
(***************************************************************************)
K_sql == <<"s","q","l">>
K_rest == <<"r","e","s","t">>
K_api == <<"a","p","i">>
K_linux == <<"l","i","n","u","x">>
K_support == <<"s","u","p","p","o","r","t">>
K_aws == <<"a","w","s">>
K_grafana == <<"g","r","a","f","a","n","a">>
K_opensearch == <<"o","p","e","n","s","e","a","r","c","h">>
K_python == <<"p","y","t","h","o","n">>
K_bash == <<"b","a","s","h">>
K_kubernetes == <<"k","u","b","e","r","n","e","t","e","s">>

title_candidates == <<
    <<"t","e","c","h","n","i","c","a","l"," ","s","u","p","p","o","r","t">>,
    <<"s","u","p","p","o","r","t"," ","e","n","g","i","n","e","e","r">>,
    <<"s","i","t","e"," ","r","e","l","i","a","b","i","l","i","t","y">>,
    <<"d","e","v","o","p","s">>,
    <<"d","a","t","a"," ","e","n","g","i","n","e","e","r">>,
    <<"q","a">>,
    <<"c","u","s","t","o","m","e","r"," ","s","u","c","c","e","s","s">> >>

RoleMatchPrefix == <<"r","o","l","e"," ","m","a","t","c","h",":"," ">>
FoundPrefix == <<"F","o","u","n","d",":"," ">>
MissingPrefix == <<"M","i","s","s","i","n","g"," ","s","i","g","n","a","l"," ","f","o","r",":"," ">>

SuggestSql == "Add a bullet with SQL: queries you ran, logs you analyzed, or metrics you computed."
SuggestApi == "Mention REST APIs you integrated/troubleshot; include tools and error codes."
SuggestLinux == "Show Linux experience (shell, logs, services, systemctl, journalctl)."
SuggestSupport == "Quantify support impact (tickets/week, SLA, MTTR, escalations handled)."
SuggestFallback == "Looks good-tighten bullets with numbers and outcomes."

WantedPoints == 10
NicePoints == 4
RoleBonus == 6
FuzzyThreshold == 80
TitleWindow == 2000
ScoreFloor == 0
ScoreCeiling == 100
MaxItems == 6

(***************************************************************************)
(* Inputs: job descriptions and resume texts are concatenations of a few   *)
(* phrases, in any order and with repetition.                              *)
(***************************************************************************)
JdPieces == {
    <<"S","q","l"," ","A","P","I"," ","L","i","n","u","x">>,
    <<"R","E","S","T"," ","s","u","p","p","o","r","t">>,
    <<"A","W","S"," ","g","r","a","f","a","n","a"," ","P","y","t","h","o","n"," ","k","u","b","e","r","n","e","t","e","s">>,
    <<"i","n","t","e","r","e","s","t"," ","i","n"," ","B","a","s","h",","," ","O","p","e","n","S","e","a","r","c","h">> }

CvPieces == {
    <<"S","Q","L",","," ","L","i","n","u","x",","," ","R","E","S","T"," ","A","P","I","s">>,
    <<"a","w","s"," ","g","r","a","f","a","n","a"," ","o","p","e","n","s","e","a","r","c","h"," ","P","y","t","h","o","n"," ","b","a","s","h"," ","K","u","b","e","r","n","e","t","e","s">>,
    <<"D","e","v","O","p","s"," ","s","u","p","p","o","r","t">>,
    <<"Q","A"," ","t","e","s","t","e","r">> }

JDs == {Flatten(ps) : ps \in SeqsUpTo(JdPieces, MaxJdPieces)}
CVs == {Flatten(ps) : ps \in SeqsUpTo(CvPieces, MaxCvPieces)}

\* inputs of keyword_score called on its own: lists of any length, with repeats
WantedLists == {Rep(k, n) : k \in {K_sql, K_support}, n \in 0..MaxListLen}
NiceLists == {Rep(k, n) : k \in {K_aws}, n \in 0..MaxListLen}
ScoreCVs == CvPieces \cup {<<>>}

(***************************************************************************)
(* analyze, lines 77-92: the keyword table.                                *)
(***************************************************************************)
\* req_if / nice_if: list.extend([k for k in keys if k not in list])
ExtendNew(list, keys) ==
    list \o SelectSeq(keys, LAMBDA k : ~InList(k, list))

\* a mutant of DeriveWanted: the "rest"/"api" row adds "api" alone
DeriveWantedApiOnly(jd) ==
    LET jd_lower == Lower(jd)
        w1 == IF Contains(jd_lower, K_sql) THEN ExtendNew(<<>>, <<K_sql>>) ELSE <<>>
        w2 == IF Contains(jd_lower, K_rest) \/ Contains(jd_lower, K_api)
              THEN ExtendNew(w1, <<K_api>>) ELSE w1
        w3 == IF Contains(jd_lower, K_linux) THEN ExtendNew(w2, <<K_linux>>) ELSE w2
    IN  IF Contains(jd_lower, K_support) THEN ExtendNew(w3, <<K_support>>) ELSE w3

\* the wanted list of analyze: lines 77, 78, 81, 85-87, 92
DeriveWanted(jd) ==
    LET jd_lower == Lower(jd)
        w1 == IF Contains(jd_lower, K_sql) THEN ExtendNew(<<>>, <<K_sql>>) ELSE <<>>
        w2 == IF Contains(jd_lower, K_rest) \/ Contains(jd_lower, K_api)
              THEN ExtendNew(w1, <<K_api, K_rest>>) ELSE w1
        w3 == IF Contains(jd_lower, K_linux) THEN ExtendNew(w2, <<K_linux>>) ELSE w2
    IN  IF Contains(jd_lower, K_support) THEN ExtendNew(w3, <<K_support>>) ELSE w3

\* a mutant of DeriveNice: the "aws" row tests the job description as typed
DeriveNiceRawAws(jd) ==
    LET jd_lower == Lower(jd)
        n1 == IF Contains(jd, K_aws) THEN ExtendNew(<<>>, <<K_aws>>) ELSE <<>>
        n2 == IF Contains(jd_lower, K_grafana) \/ Contains(jd_lower, K_opensearch)
              THEN ExtendNew(n1, <<K_grafana, K_opensearch>>) ELSE n1
        n3 == IF Contains(jd_lower, K_python) \/ Contains(jd_lower, K_bash)
              THEN ExtendNew(n2, <<K_python, K_bash>>) ELSE n2
    IN  IF Contains(jd_lower, K_kubernetes) THEN ExtendNew(n3, <<K_kubernetes>>) ELSE n3

\* the nice list of analyze: lines 77, 79, 82, 88-91
DeriveNice(jd) ==
    LET jd_lower == Lower(jd)
        n1 == IF Contains(jd_lower, K_aws) THEN ExtendNew(<<>>, <<K_aws>>) ELSE <<>>
        n2 == IF Contains(jd_lower, K_grafana) \/ Contains(jd_lower, K_opensearch)
              THEN ExtendNew(n1, <<K_grafana, K_opensearch>>) ELSE n1
        n3 == IF Contains(jd_lower, K_python) \/ Contains(jd_lower, K_bash)
              THEN ExtendNew(n2, <<K_python, K_bash>>) ELSE n2
    IN  IF Contains(jd_lower, K_kubernetes) THEN ExtendNew(n3, <<K_kubernetes>>) ELSE n3

(***************************************************************************)
(* keyword_score, lines 37-66.                                             *)
(***************************************************************************)
\* What process.extractOne(query, title_candidates, scorer=partial_ratio) may
\* return: <<title, similarity>>.  A title that occurs literally in the query
\* has similarity 100 and is the best; otherwise the library's answer is any
\* candidate with any similarity.
FuzzyScores == {0, 79, 80, 99}
ExtractOne(query) ==
    LET literal == {i \in 1..Len(title_candidates) : Contains(query, title_candidates[i])}
    IN  IF literal # {}
        THEN {<<title_candidates[i], 100>> : i \in literal}
        ELSE {<<title_candidates[i], s>> : i \in 1..Len(title_candidates), s \in FuzzyScores}

\* a mutant of Clamp: the accumulated points are returned as they are
ClampNone(score) == score

\* max(0, min(100, score))
Clamp(score) ==
    LET capped == IF score < ScoreCeiling THEN score ELSE ScoreCeiling
    IN  IF capped > ScoreFloor THEN capped ELSE ScoreFloor

\* the result of keyword_score, given what extractOne returned
KeywordScore(cv, wantedList, niceList, best) ==
    LET cv_lower == Lower(cv)
        wantedHits == SelectSeq(wantedList, LAMBDA k : Contains(cv_lower, k))
        wantedGaps == SelectSeq(wantedList, LAMBDA k : ~Contains(cv_lower, k))
        niceHits == SelectSeq(niceList, LAMBDA k : Contains(cv_lower, k))
        bonus == best[2] >= FuzzyThreshold
        points == WantedPoints * Len(wantedHits) + NicePoints * Len(niceHits)
                  + (IF bonus THEN RoleBonus ELSE 0)
        allHits == wantedHits \o niceHits
                   \o (IF bonus THEN <<RoleMatchPrefix \o best[1]>> ELSE <<>>)
    IN  [score |-> Clamp(points), hits |-> allHits, gaps |-> wantedGaps]

(***************************************************************************)
(* analyze, lines 96-118: suggestions and the response.                    *)
(***************************************************************************)
\* a mutant of Suggestions: the fallback is forgotten
SuggestionsNoFallback(missingList) ==
    (IF InList(K_sql, missingList) THEN <<SuggestSql>> ELSE <<>>)
    \o (IF InList(K_api, missingList) \/ InList(K_rest, missingList)
        THEN <<SuggestApi>> ELSE <<>>)
    \o (IF InList(K_linux, missingList) THEN <<SuggestLinux>> ELSE <<>>)
    \o (IF InList(K_support, missingList) THEN <<SuggestSupport>> ELSE <<>>)

Suggestions(missingList) ==
    LET s == (IF InList(K_sql, missingList) THEN <<SuggestSql>> ELSE <<>>)
             \o (IF InList(K_api, missingList) \/ InList(K_rest, missingList)
                 THEN <<SuggestApi>> ELSE <<>>)
             \o (IF InList(K_linux, missingList) THEN <<SuggestLinux>> ELSE <<>>)
             \o (IF InList(K_support, missingList) THEN <<SuggestSupport>> ELSE <<>>)
    IN  IF Take(s, MaxItems) # <<>> THEN Take(s, MaxItems) ELSE <<SuggestFallback>>

Highlights(hitList) ==
    Take([i \in 1..Len(hitList) |-> FoundPrefix \o hitList[i]], MaxItems)

Gaps(missingList) ==
    Take([i \in 1..Len(missingList) |-> MissingPrefix \o missingList[i]], MaxItems)

(***************************************************************************)
(* The heuristic /analyze request, in the order of the handler.            *)
(***************************************************************************)
\* lines 77-92
AnalyzeDerive ==
    /\ hpc = "start"
    /\ wanted' = DeriveWanted(job_description)
    /\ nice' = DeriveNice(job_description)
    /\ hpc' = "derived"
    /\ UNCHANGED <<job_description, cv_text, fit, hits, missing,
                   highlights, gaps, suggestions>>
    /\ UNCHANGED <<rvars, avars>>

\* line 94: fit, hits, missing = keyword_score(cv_text, wanted, nice)
AnalyzeScore ==
    /\ hpc = "derived"
    /\ \E best \in ExtractOne(Take(Lower(cv_text), TitleWindow)) :
          LET r == KeywordScore(cv_text, wanted, nice, best)
          IN  /\ fit' = r.score
              /\ hits' = r.hits
              /\ missing' = r.gaps
    /\ hpc' = "scored"
    /\ UNCHANGED <<job_description, cv_text, wanted, nice,
                   highlights, gaps, suggestions>>
    /\ UNCHANGED <<rvars, avars>>

\* lines 96-118
AnalyzeRespond ==
    /\ hpc = "scored"
    /\ suggestions' = Suggestions(missing)
    /\ highlights' = Highlights(hits)
    /\ gaps' = Gaps(missing)
    /\ hpc' = "done"
    /\ UNCHANGED <<job_description, cv_text, wanted, nice, fit, hits, missing>>
    /\ UNCHANGED <<rvars, avars>>

(***************************************************************************)
(* The hardened variant: rate_limit, lines 72-80.                          *)
(* Time is counted in tenths of a second.  Each thread of the server's     *)
(* pool runs rate_limit in three steps: it reads the clock (line 77), reads *)
(* _LAST_CALL_TS and compares (lines 78-79), and stores (line 80).         *)
(***************************************************************************)
Threads == {"t1", "t2"}

MIN_INTERVAL == 5
TOO_MANY_REQUESTS == 429

\* a mutant of TooSoon: the boundary is taken as too soon
TooSoonInclusive(t_now, last) == t_now - last <= MIN_INTERVAL

\* line 78: now - _LAST_CALL_TS < _MIN_INTERVAL_SEC
TooSoon(t_now, last) == t_now - last < MIN_INTERVAL

InFlight == Cardinality({t \in Threads : rpc[t] # "idle"})

\* time passes
Tick ==
    /\ clock < MaxClock
    /\ clock' = clock + 1
    /\ UNCHANGED <<LAST_CALL_TS, rpc, now, seen, callLog>>
    /\ UNCHANGED <<hvars, avars>>

\* line 77: now = time.time()
ReadClock(t) ==
    /\ rpc[t] = "idle"
    /\ Len(callLog) + InFlight < MaxCalls
    /\ now' = [now EXCEPT ![t] = clock]
    /\ rpc' = [rpc EXCEPT ![t] = "timed"]
    /\ UNCHANGED <<LAST_CALL_TS, clock, seen, callLog>>
    /\ UNCHANGED <<hvars, avars>>

\* lines 78-79: the comparison, and the raise
Compare(t) ==
    /\ rpc[t] = "timed"
    /\ seen' = [seen EXCEPT ![t] = LAST_CALL_TS]
    /\ rpc' = [rpc EXCEPT ![t] =
                  IF TooSoon(now[t], LAST_CALL_TS) THEN "rejected" ELSE "passed"]
    /\ UNCHANGED <<LAST_CALL_TS, clock, now, callLog>>
    /\ UNCHANGED <<hvars, avars>>

\* a mutant of Write: the store compares again and gives way to a later store
WriteRecheck(t) ==
    /\ rpc[t] = "passed"
    /\ IF TooSoon(now[t], LAST_CALL_TS)
       THEN /\ rpc' = [rpc EXCEPT ![t] = "rejected"]
            /\ UNCHANGED LAST_CALL_TS
       ELSE /\ rpc' = [rpc EXCEPT ![t] = "accepted"]
            /\ LAST_CALL_TS' = now[t]
    /\ UNCHANGED <<clock, now, seen, callLog>>
    /\ UNCHANGED <<hvars, avars>>

\* line 80: _LAST_CALL_TS = now
Write(t) ==
    /\ rpc[t] = "passed"
    /\ LAST_CALL_TS' = now[t]
    /\ rpc' = [rpc EXCEPT ![t] = "accepted"]
    /\ UNCHANGED <<clock, now, seen, callLog>>
    /\ UNCHANGED <<hvars, avars>>

\* the call returns, or its HTTPException(429) leaves it
Return(t) ==
    /\ rpc[t] \in {"accepted", "rejected"}
    /\ callLog' = Append(callLog,
                    [time |-> now[t],
                     code |-> IF rpc[t] = "rejected" THEN TOO_MANY_REQUESTS ELSE 0,
                     seen |-> seen[t],
                     after |-> LAST_CALL_TS])
    /\ rpc' = [rpc EXCEPT ![t] = "idle"]
    /\ now' = [now EXCEPT ![t] = 0]
    /\ seen' = [seen EXCEPT ![t] = 0]
    /\ UNCHANGED <<LAST_CALL_TS, clock>>
    /\ UNCHANGED <<hvars, avars>>

\* calls one at a time: a call starts only when no other call is running
ReadClockAlone(t) ==
    /\ \A u \in Threads : rpc[u] = "idle"
    /\ ReadClock(t)

(***************************************************************************)
(* The hardened variant: uploads, _ensure_size and _read_file_content.     *)
(***************************************************************************)
MAX_FILE_SIZE_MB == 8
MaxAttempts == 3
HTTP_OK == 200
HTTP_TOO_LARGE == 413
HTTP_INTERNAL == 500
HTTP_BAD_GATEWAY == 502

SizeLimit == MAX_FILE_SIZE_MB * 1024 * 1024

ExtTxt == <<".","t","x","t">>
ExtDocx == <<".","d","o","c","x">>
ExtPdf == <<".","p","d","f">>
DefaultName == <<"c","v">>

\* str.endswith
EndsWith(s, suffix) ==
    /\ Len(s) >= Len(suffix)
    /\ SubSeq(s, Len(s) - Len(suffix) + 1, Len(s)) = suffix

\* The uploads a request may carry: a file name, a byte length, and whether
\* its bytes are not a well-formed document of the declared type.
Uploads == {
    [filename |-> <<"c","v",".","t","x","t">>, size |-> 0, malformed |-> FALSE],
    [filename |-> <<"S","c","a","n",".","P","D","F">>, size |-> SizeLimit, malformed |-> FALSE],
    [filename |-> <<"b","a","d",".","d","o","c","x">>, size |-> 1024, malformed |-> TRUE],
    [filename |-> <<"b","i","g",".","p","d","f">>, size |-> SizeLimit + 1, malformed |-> FALSE],
    [filename |-> <<>>, size |-> 2048, malformed |-> TRUE] }

\* a mutant of TooLarge: an upload of exactly the ceiling is refused
TooLargeInclusive(size) == size >= MAX_FILE_SIZE_MB * 1024 * 1024

\* line 124: size > settings.MAX_FILE_SIZE_MB * 1024 * 1024
TooLarge(size) == size > MAX_FILE_SIZE_MB * 1024 * 1024

\* lines 120-123: tell, seek to the end, tell, seek back; the size found and
\* the position the stream is left at
SizeProbe(pos, length) ==
    LET saved == pos
        atEnd == length
    IN  [size |-> atEnd, pos |-> saved]

\* lines 134-159: whether decoding the content of the upload raises.  The
\* .txt and the fallback branch decode with errors="ignore" and never raise;
\* the .docx and .pdf parsers raise on bytes that are no such document.
ExtractionRaises(upload) ==
    LET name == Lower(upload.filename)
    IN  IF EndsWith(name, ExtTxt) THEN FALSE
        ELSE IF EndsWith(name, ExtDocx) THEN upload.malformed
        ELSE IF EndsWith(name, ExtPdf) THEN upload.malformed
        ELSE FALSE

(***************************************************************************)
(* _chat_json, lines 198-212, and the handlers, lines 240-292.             *)
(***************************************************************************)
\* What one call of the provider may produce: an SDK or network error, a
\* content that is no JSON, or a JSON object.
ProviderOutcomes == {
    [kind |-> "error", wellTyped |-> FALSE, fit_score |-> 0],
    [kind |-> "unparseable", wellTyped |-> FALSE, fit_score |-> 0],
    [kind |-> "json", wellTyped |-> FALSE, fit_score |-> 50],
    [kind |-> "json", wellTyped |-> TRUE, fit_score |-> 101],
    [kind |-> "json", wellTyped |-> TRUE, fit_score |-> 0],
    [kind |-> "json", wellTyped |-> TRUE, fit_score |-> 100] }

\* the attempts of _chat_json that raise: create() raising, json.loads raising
Raises(kind) == kind \in {"error", "unparseable"}

NoData == [kind |-> "none", wellTyped |-> FALSE, fit_score |-> 0]

\* a mutant of ShouldStop: one attempt more
ShouldStopLate(attempt_number) == attempt_number > MaxAttempts

\* stop_after_attempt(3)
ShouldStop(attempt_number) == attempt_number >= MaxAttempts

\* ExtractResponse(**data) / AnalyzeResponse(**data)
SchemaValid(ep, d) ==
    IF ep = "extract" THEN d.wellTyped
    ELSE d.wellTyped /\ d.fit_score >= 0 /\ d.fit_score <= 100

\* the status /extract and /analyze answer an exception with: FileTooLarge is
\* the HTTPException of _ensure_size; an extraction error is raised outside
\* the try and becomes the server's 500; lines 247-250 / 263-266 map the rest
StatusOf(e) ==
    CASE e = "FileTooLarge" -> HTTP_TOO_LARGE
      [] e = "ExtractError" -> HTTP_INTERNAL
      [] e = "ValidationError" -> HTTP_INTERNAL
      [] OTHER -> HTTP_BAD_GATEWAY

\* f.filename or "cv"
ItemName(upload) == IF upload.filename = <<>> THEN DefaultName ELSE upload.filename

\* lines 284-290
FailedItem(upload, e) ==
    [filename |-> ItemName(upload), fit_score |-> 0,
     fit_reason |-> <<"Error: ", e>>, suggestions |-> <<"Processing failed.">>]

\* line 280
OkItem(upload, d) ==
    [filename |-> ItemName(upload), fit_score |-> d.fit_score,
     fit_reason |-> <<"model reason">>, suggestions |-> <<"model suggestions">>]

\* _ensure_size, lines 118-128
EnsureSize ==
    /\ apc = "size"
    /\ posBefore' = fpos
    /\ LET probe == SizeProbe(fpos, files[idx].size)
       IN  /\ fpos' = probe.pos
           /\ IF TooLarge(probe.size)
              THEN /\ exc' = "FileTooLarge"
                   /\ causes' = Append(causes, "FileTooLarge")
                   /\ apc' = "raised"
              ELSE /\ apc' = "read"
                   /\ UNCHANGED <<exc, causes>>
    /\ UNCHANGED <<endpoint, files, idx, contentRead, chatLog, data, results, status>>
    /\ UNCHANGED <<hvars, rvars>>

\* _read_file_content after the size check, lines 132-159
ReadContent ==
    /\ apc = "read"
    /\ contentRead' = TRUE
    /\ fpos' = 0
    /\ IF ExtractionRaises(files[idx])
       THEN /\ exc' = "ExtractError"
            /\ causes' = Append(causes, "ExtractError")
            /\ apc' = "raised"
       ELSE /\ apc' = "chat"
            /\ UNCHANGED <<exc, causes>>
    /\ UNCHANGED <<endpoint, files, idx, posBefore, chatLog, data, results, status>>
    /\ UNCHANGED <<hvars, rvars>>

\* one attempt of _chat_json: the provider is called; a raising attempt is
\* followed by a wait and another attempt unless the stop condition holds, and
\* then tenacity raises RetryError
ChatAttempt ==
    /\ apc = "chat"
    /\ \E o \in ProviderOutcomes :
          LET log == Append(chatLog, o.kind)
          IN  /\ chatLog' = log
              /\ IF Raises(o.kind)
                 THEN IF ShouldStop(Len(log))
                      THEN /\ exc' = "RetryError"
                           /\ causes' = Append(causes, "RetryError")
                           /\ apc' = "raised"
                           /\ UNCHANGED data
                      ELSE /\ apc' = "chat"
                           /\ UNCHANGED <<exc, causes, data>>
                 ELSE /\ data' = o
                      /\ apc' = "validate"
                      /\ UNCHANGED <<exc, causes>>
    /\ UNCHANGED <<endpoint, files, idx, fpos, posBefore, contentRead, results, status>>
    /\ UNCHANGED <<hvars, rvars>>

\* the batch loop goes to its next upload, or returns the response (line 292)
BatchAdvance ==
    IF idx = Len(files)
    THEN /\ apc' = "done"
         /\ status' = HTTP_OK
         /\ UNCHANGED <<idx, fpos, contentRead, chatLog, data, exc>>
    ELSE /\ apc' = "size"
         /\ idx' = idx + 1
         /\ fpos' = 0
         /\ contentRead' = FALSE
         /\ chatLog' = <<>>
         /\ data' = NoData
         /\ exc' = "none"
         /\ UNCHANGED status

\* lines 246, 262, 280-281: the response model is built from the data
Validate ==
    /\ apc = "validate"
    /\ IF ~SchemaValid(endpoint, data)
       THEN /\ exc' = "ValidationError"
            /\ causes' = Append(causes, "ValidationError")
            /\ apc' = "raised"
            /\ UNCHANGED <<idx, fpos, contentRead, chatLog, data, results, status>>
       ELSE /\ causes' = Append(causes, "ok")
            /\ IF endpoint = "batch"
               THEN /\ results' = Append(results, OkItem(files[idx], data))
                    /\ BatchAdvance
               ELSE /\ apc' = "done"
                    /\ status' = HTTP_OK
                    /\ UNCHANGED <<idx, fpos, contentRead, chatLog, data, exc, results>>
    /\ UNCHANGED <<endpoint, files, posBefore>>
    /\ UNCHANGED <<hvars, rvars>>

\* /extract and /analyze: the exception leaves the handler
RespondError ==
    /\ apc = "raised"
    /\ endpoint \in {"extract", "analyze"}
    /\ status' = StatusOf(exc)
    /\ apc' = "done"
    /\ UNCHANGED <<endpoint, files, idx, fpos, posBefore, contentRead, chatLog,
                   data, exc, causes, results>>
    /\ UNCHANGED <<hvars, rvars>>

\* a mutant of BatchCatch: the exception leaves the handler
BatchCatchAbort ==
    /\ apc = "raised"
    /\ endpoint = "batch"
    /\ status' = StatusOf(exc)
    /\ apc' = "done"
    /\ UNCHANGED <<endpoint, files, idx, fpos, posBefore, contentRead, chatLog,
                   data, exc, causes, results>>
    /\ UNCHANGED <<hvars, rvars>>

\* /analyze/batch, lines 282-290: except Exception
BatchCatch ==
    /\ apc = "raised"
    /\ endpoint = "batch"
    /\ results' = Append(results, FailedItem(files[idx], exc))
    /\ BatchAdvance
    /\ UNCHANGED <<endpoint, files, posBefore, causes>>
    /\ UNCHANGED <<hvars, rvars>>

(***************************************************************************)
(* Specifications.                                                         *)
(***************************************************************************)
HeurNext == AnalyzeDerive \/ AnalyzeScore \/ AnalyzeRespond

ScoreNext == AnalyzeScore

SeqNext ==
    \/ Tick
    \/ \E t \in Threads : ReadClockAlone(t) \/ Compare(t) \/ Write(t) \/ Return(t)

ConcNext ==
    \/ Tick
    \/ \E t \in Threads : ReadClock(t) \/ Compare(t) \/ Write(t) \/ Return(t)

ApiNext ==
    EnsureSize \/ ReadContent \/ ChatAttempt \/ Validate \/ RespondError \/ BatchCatch

\* Initial states.  The variables of the parts a specification leaves alone
\* keep their idle values.

\* heuristic /analyze: a request arrives with its form field and the text of
\* its upload
HeurInit ==
    /\ hpc = "start"
    /\ job_description \in JDs
    /\ cv_text \in CVs
    /\ wanted = <<>> /\ nice = <<>>
    /\ fit = 0 /\ hits = <<>> /\ missing = <<>>
    /\ highlights = <<>> /\ gaps = <<>> /\ suggestions = <<>>
    /\ LAST_CALL_TS = 0
    /\ clock = MIN_INTERVAL
    /\ rpc = [t \in Threads |-> "idle"]
    /\ now = [t \in Threads |-> 0]
    /\ seen = [t \in Threads |-> 0]
    /\ callLog = <<>>
    /\ apc = "idle" /\ endpoint = "none" /\ files = <<>> /\ idx = 0
    /\ fpos = 0 /\ posBefore = 0 /\ contentRead = FALSE /\ chatLog = <<>>
    /\ data = NoData /\ exc = "none" /\ causes = <<>> /\ results = <<>>
    /\ status = 0

\* keyword_score about to be called with lists of the caller's choice
ScoreInit ==
    /\ hpc = "derived"
    /\ job_description = <<>>
    /\ cv_text \in ScoreCVs
    /\ wanted \in WantedLists
    /\ nice \in NiceLists
    /\ fit = 0 /\ hits = <<>> /\ missing = <<>>
    /\ highlights = <<>> /\ gaps = <<>> /\ suggestions = <<>>
    /\ LAST_CALL_TS = 0
    /\ clock = MIN_INTERVAL
    /\ rpc = [t \in Threads |-> "idle"]
    /\ now = [t \in Threads |-> 0]
    /\ seen = [t \in Threads |-> 0]
    /\ callLog = <<>>
    /\ apc = "idle" /\ endpoint = "none" /\ files = <<>> /\ idx = 0
    /\ fpos = 0 /\ posBefore = 0 /\ contentRead = FALSE /\ chatLog = <<>>
    /\ data = NoData /\ exc = "none" /\ causes = <<>> /\ results = <<>>
    /\ status = 0

\* rate_limit: the module is loaded (line 72) at a time.time() far past
\* _MIN_INTERVAL_SEC, and no call has been made
RateInit ==
    /\ hpc = "idle" /\ job_description = <<>> /\ cv_text = <<>>
    /\ wanted = <<>> /\ nice = <<>>
    /\ fit = 0 /\ hits = <<>> /\ missing = <<>>
    /\ highlights = <<>> /\ gaps = <<>> /\ suggestions = <<>>
    /\ LAST_CALL_TS = 0
    /\ clock = MIN_INTERVAL
    /\ rpc = [t \in Threads |-> "idle"]
    /\ now = [t \in Threads |-> 0]
    /\ seen = [t \in Threads |-> 0]
    /\ callLog = <<>>
    /\ apc = "idle" /\ endpoint = "none" /\ files = <<>> /\ idx = 0
    /\ fpos = 0 /\ posBefore = 0 /\ contentRead = FALSE /\ chatLog = <<>>
    /\ data = NoData /\ exc = "none" /\ causes = <<>> /\ results = <<>>
    /\ status = 0

\* a request has passed its dependency and enters its handler
ApiInit ==
    /\ hpc = "idle" /\ job_description = <<>> /\ cv_text = <<>>
    /\ wanted = <<>> /\ nice = <<>>
    /\ fit = 0 /\ hits = <<>> /\ missing = <<>>
    /\ highlights = <<>> /\ gaps = <<>> /\ suggestions = <<>>
    /\ LAST_CALL_TS = 0
    /\ clock = MIN_INTERVAL
    /\ rpc = [t \in Threads |-> "idle"]
    /\ now = [t \in Threads |-> 0]
    /\ seen = [t \in Threads |-> 0]
    /\ callLog = <<>>
    /\ apc = "size"
    /\ endpoint \in {"extract", "analyze", "batch"}
    /\ files \in UNION {[1..n -> Uploads] : n \in 1..MaxFiles}
    /\ endpoint # "batch" => Len(files) = 1
    /\ idx = 1
    /\ fpos = 0 /\ posBefore = 0 /\ contentRead = FALSE /\ chatLog = <<>>
    /\ data = NoData /\ exc = "none" /\ causes = <<>> /\ results = <<>>
    /\ status = 0

\* the handlers, where a step that can be taken is taken in the end: the
\* provider call returns or raises, and the wait between attempts ends
SpecApiFair == ApiInit /\ [][ApiNext]_vars /\ WF_vars(ApiNext)

\* the heuristic variant's /analyze
SpecHeur == HeurInit /\ [][HeurNext]_vars
\* keyword_score on its own
SpecScore == ScoreInit /\ [][ScoreNext]_vars
\* rate_limit, one call at a time
SpecSeq == RateInit /\ [][SeqNext]_vars
\* rate_limit in the threads of the pool
SpecConc == RateInit /\ [][ConcNext]_vars
\* the handlers of the hardened variant
SpecApi == ApiInit /\ [][ApiNext]_vars

(***************************************************************************)
(* Properties of the heuristic variant.                                    *)
(***************************************************************************)
Triggers == <<K_sql, K_rest, K_api, K_linux, K_support, K_aws, K_grafana,
              K_opensearch, K_python, K_bash, K_kubernetes>>

\* the triggers that occur in the lowercased text
TriggersIn(text) ==
    LET low == Lower(text)
    IN  {i \in 1..Len(Triggers) : Contains(low, Triggers[i])}

\* the plainest job description with the trigger set T: its triggers, in the
\* order of the table, lowercase, one per line
RECURSIVE PlainJd(_, _)
PlainJd(T, i) ==
    IF i > Len(Triggers) THEN <<>>
    ELSE (IF i \in T THEN Triggers[i] \o <<"\n">> ELSE <<>>) \o PlainJd(T, i + 1)

NoRepeat(list) == \A i, j \in 1..Len(list) : list[i] = list[j] => i = j

CountOf(x, list) == Cardinality({i \in 1..Len(list) : list[i] = x})

\* C1: whatever the wanted list, the nice list and the resume text, the score
\* keyword_score returns is an integer between 0 and 100.
C1_ScoreInRange ==
    hpc = "scored" => fit \in 0..100

\* C1 witness: eleven wanted hits, 110 points, returned as 100.
C1_Witness ==
    /\ hpc = "scored"
    /\ CountOf(K_sql, hits) >= 11
    /\ fit = 100

\* the case of C7: the job description holds the triggers sql, api and linux
\* and no other, and the resume holds none of the wanted keywords
C7_Case ==
    /\ hpc = "done"
    /\ TriggersIn(job_description) = {1, 3, 4}
    /\ \A i \in 1..Len(wanted) : ~Contains(Lower(cv_text), wanted[i])

\* C7 as stated: in that case the score is 0 or the 6 points of the title
\* bonus, and there are exactly three gap entries.
C7_ThreeGaps ==
    C7_Case => /\ fit \in {0, 6}
               /\ Len(gaps) = 3

\* C7 as amended: in that case the score is 0 or the 6 points of the title
\* bonus, and there are exactly four gap entries: sql, api, rest and linux,
\* since the "rest"/"api" row adds both keywords.
C7_FourGaps ==
    C7_Case => /\ fit \in {0, 6}
               /\ \A i \in 1..Len(hits) : ~InList(hits[i], wanted)
               /\ gaps = <<MissingPrefix \o K_sql, MissingPrefix \o K_api,
                            MissingPrefix \o K_rest, MissingPrefix \o K_linux>>

\* C7 witness: such a request, answered with the title bonus alone.
C7_Witness ==
    /\ C7_Case
    /\ fit = 6

\* C8: the suggestions list has between 1 and 6 entries: the template of each
\* missing must-have keyword (sql; api or rest; linux; support) when one is
\* missing, the fallback alone when none is; highlights and gaps are the first
\* six hits and the first six gaps, in order.
C8_ResponseLists ==
    hpc = "done" =>
        /\ Len(suggestions) \in 1..6
        /\ InList(SuggestSql, suggestions) <=> InList(K_sql, missing)
        /\ InList(SuggestApi, suggestions)
               <=> (InList(K_api, missing) \/ InList(K_rest, missing))
        /\ InList(SuggestLinux, suggestions) <=> InList(K_linux, missing)
        /\ InList(SuggestSupport, suggestions) <=> InList(K_support, missing)
        /\ InList(SuggestFallback, suggestions) <=> missing = <<>>
        /\ missing = <<>> => suggestions = <<SuggestFallback>>
        /\ NoRepeat(suggestions)
        /\ Len(highlights) <= 6 /\ Len(gaps) <= 6
        /\ Len(highlights) = (IF Len(hits) < 6 THEN Len(hits) ELSE 6)
        /\ Len(gaps) = (IF Len(missing) < 6 THEN Len(missing) ELSE 6)
        /\ \A i \in 1..Len(highlights) : highlights[i] = FoundPrefix \o hits[i]
        /\ \A i \in 1..Len(gaps) : gaps[i] = MissingPrefix \o missing[i]

\* C8 witness: more than six hits cut to six highlights, nothing missing of a
\* non-empty wanted list, and the fallback suggestion.
C8_Witness ==
    /\ hpc = "done"
    /\ Len(hits) > 6 /\ Len(highlights) = 6
    /\ wanted # <<>> /\ missing = <<>>
    /\ suggestions = <<SuggestFallback>>

\* C9: the wanted and nice lists are those of the plainest job description
\* with the same triggers, so any two job descriptions with the same triggers
\* give the same lists whatever the order, case or repetition; and no keyword
\* occurs twice in either list.
C9_TriggersDecide ==
    hpc \in {"derived", "scored", "done"} =>
        LET T == TriggersIn(job_description)
            plain == PlainJd(T, 1)
        IN  /\ TriggersIn(plain) = T
            /\ wanted = DeriveWanted(plain)
            /\ nice = DeriveNice(plain)
            /\ NoRepeat(wanted) /\ NoRepeat(nice)

\* C9 witness: a job description with "rest" and "api" both present, one of
\* them in capitals, that lists each keyword once.
C9_Witness ==
    /\ hpc = "derived"
    /\ {2, 3} \subseteq TriggersIn(job_description)
    /\ job_description # PlainJd(TriggersIn(job_description), 1)
    /\ Contains(job_description, <<"R","E","S","T">>)
    /\ CountOf(K_api, wanted) = 1 /\ CountOf(K_rest, wanted) = 1

(***************************************************************************)
(* Properties of rate_limit.                                               *)
(***************************************************************************)
\* the accepted calls that returned before call i
AcceptedBefore(i) == {j \in 1..(i - 1) : callLog[j].code = 0}

Latest(S) == CHOOSE j \in S : \A k \in S : k <= j

\* C3: with the calls made one at a time, a call is rejected with 429 exactly
\* when an accepted call precedes it by less than 0.5 s; an accepted call
\* leaves its own time stored, a rejected call leaves the stored time as it
\* found it; so two accepted calls are at least 0.5 s apart.
C3_OneAtATime ==
    \A i \in 1..Len(callLog) :
        LET e == callLog[i]
            prior == AcceptedBefore(i)
            stored == IF prior = {} THEN 0 ELSE callLog[Latest(prior)].time
        IN  /\ e.code \in {0, 429}
            /\ e.seen = stored
            /\ e.code = 429 <=> (prior # {} /\ e.time - stored < 5)
            /\ e.code = 0 => e.after = e.time
            /\ e.code = 429 => e.after = stored
            /\ \A j \in prior : e.code = 0 => e.time - callLog[j].time >= 5

\* C3 witness: a call accepted, the next rejected, and a third accepted 0.5 s
\* or more after the first.
C3_Witness ==
    /\ Len(callLog) = 3
    /\ callLog[1].code = 0 /\ callLog[2].code = 429 /\ callLog[3].code = 0
    /\ callLog[3].time - callLog[1].time >= 5

\* C10: in concurrent threads the outcome of a call rests on the timestamp its
\* comparison read, whatever was stored since: it is rejected exactly when its
\* time is less than 0.5 s past that timestamp.
C10_DecidedOnRead ==
    \A i \in 1..Len(callLog) :
        callLog[i].code = 429 <=> callLog[i].time - callLog[i].seen < 5

\* C10 witness: two calls that read the same old timestamp before either
\* stored, both accepted, less than 0.5 s apart.
C10_Witness ==
    \E i, j \in 1..Len(callLog) :
        /\ i < j
        /\ callLog[i].code = 0 /\ callLog[j].code = 0
        /\ callLog[i].seen = callLog[j].seen
        /\ callLog[j].time - callLog[i].time < 5
        /\ callLog[i].time - callLog[j].time < 5

(***************************************************************************)
(* Properties of the handlers of the hardened variant.                     *)
(***************************************************************************)
\* C2 as stated: the batch response has one item per upload, in order, under
\* the file name of the upload; a failing upload gives fit_score 0 and a reason
\* that starts with "Error"; the request itself succeeds.
C2_ItemPerFileSameName ==
    (endpoint = "batch" /\ apc = "done") =>
        /\ status = 200
        /\ Len(results) = Len(files) /\ Len(causes) = Len(files)
        /\ \A i \in 1..Len(results) :
              /\ results[i].filename = files[i].filename
              /\ causes[i] # "ok" => /\ results[i].fit_score = 0
                                      /\ results[i].fit_reason[1] = "Error: "

\* C2 as amended: the same, with the item of an upload without a file name
\* carrying the name "cv".
C2_ItemPerFile ==
    (endpoint = "batch" /\ apc = "done") =>
        /\ status = 200
        /\ Len(results) = Len(files) /\ Len(causes) = Len(files)
        /\ \A i \in 1..Len(results) :
              /\ results[i].filename =
                    (IF files[i].filename = <<>> THEN <<"c","v">> ELSE files[i].filename)
              /\ causes[i] # "ok" => /\ results[i].fit_score = 0
                                      /\ results[i].fit_reason[1] = "Error: "

\* C2 witness: a batch whose first upload fails and whose last succeeds.
C2_Witness ==
    /\ endpoint = "batch" /\ apc = "done"
    /\ Len(files) >= 2
    /\ causes[1] # "ok" /\ causes[Len(files)] = "ok"
    /\ Len(results) = Len(files)

\* C4: in /extract and /analyze a model response that is no JSON, like one
\* that fails validation, is answered with status 500.
C4_InvalidOutputIs500 ==
    (/\ endpoint \in {"extract", "analyze"} /\ apc = "done"
     /\ chatLog # <<>>
     /\ \/ chatLog[Len(chatLog)] = "unparseable"
        \/ chatLog[Len(chatLog)] = "json" /\ causes = <<"ValidationError">>)
    => status = 500

\* the attempts made so far all raised
AllRaised(n) == \A i \in 1..n : chatLog[i] \in {"error", "unparseable"}

C5_Attempts ==
    /\ Len(chatLog) <= 3
    /\ AllRaised(Len(chatLog) - 1)
    /\ apc = "validate" =>
          /\ chatLog # <<>> /\ chatLog[Len(chatLog)] = "json"
          /\ data.kind = "json"
    /\ exc = "RetryError" <=> (Len(chatLog) = 3 /\ AllRaised(3))
    /\ (Len(chatLog) < 3 /\ AllRaised(Len(chatLog)) /\ contentRead /\ exc = "none")
          => apc = "chat"
    /\ (exc = "RetryError" /\ endpoint \in {"extract", "analyze"} /\ apc = "done")
          => status = 502

\* C5: one _chat_json call makes at most three provider calls; the first one
\* that succeeds ends it with its result, a failed one is followed by another
\* only while fewer than three were made, three failures end it with the
\* failure /extract and /analyze answer with 502; and the request ends.
C5_BoundedRetry == [](C5_Attempts) /\ <>(apc = "done")

\* C5 witness: /analyze answered 502 after three failed provider calls.
C5_Witness ==
    /\ endpoint = "analyze" /\ apc = "done"
    /\ Len(chatLog) = 3 /\ AllRaised(3)
    /\ status = 502

\* C6: in /extract and /analyze an upload longer than MAX_FILE_SIZE_MB * 1024
\* * 1024 bytes is answered 413 with none of its content read and no provider
\* call made; a shorter one, or one of exactly that length, passes the check;
\* and the check leaves the stream where it found it.
C6_SizeCheck ==
    (endpoint \in {"extract", "analyze"} /\ apc # "size") =>
        /\ files[idx].size > 8 * 1024 * 1024 =>
              /\ exc = "FileTooLarge"
              /\ ~contentRead /\ chatLog = <<>>
              /\ apc = "done" => status = 413
        /\ files[idx].size <= 8 * 1024 * 1024 =>
              /\ exc # "FileTooLarge" /\ status # 413
        /\ (apc = "read" \/ (apc = "raised" /\ exc = "FileTooLarge")) => fpos = posBefore

\* C6 witness: /analyze answers 413 to an upload one byte over the ceiling.
C6_Witness ==
    /\ endpoint = "analyze" /\ apc = "done"
    /\ files[1].size = 8 * 1024 * 1024 + 1
    /\ status = 413 /\ ~contentRead /\ chatLog = <<>>

====
